---- MODULE Spec2Model ----
(***************************************************************************)
(* Nearest-bike finder (fnb.py, fb.py, fbMaemo.py).                        *)
(*                                                                         *)
(* One run of a script: main reads the reference position and the city,    *)
(* fetches the station and free-bike records (GBFS feed of Vienna, or the  *)
(* CityBik.es directory for a named city), aggregates them into spots      *)
(* with group_and_sort_spots and reports the nearest ones.                 *)
(*                                                                         *)
(* Two variants of the code exist: fnb.py ("fnb") and fb.py, whose         *)
(* fetch_citybikes_data and group_and_sort_spots are repeated verbatim in  *)
(* fbMaemo.py ("fb").                                                      *)
(*                                                                         *)
(* Spec follows main from its arguments to the aggregated spots.  Three    *)
(* parts of the scripts have a specification of their own: SpecGps the     *)
(* position provider of fbMaemo.py with its coordinate cache (SpecGpsFair  *)
(* adds the fairness of the script's own steps), SpecGbfs the merge of the *)
(* station feeds in fetch_gbfs_vienna, SpecCompass the compass point of a  *)
(* bearing.                                                                *)
(*                                                                         *)
(* Coordinates are integers counting units of 5 * 10^-7 degree, so that    *)
(* round(x, 6) and round(x, 5) both lose digits.  Distances are whole      *)
(* metres (distance_km carries 3 decimals).  Strings are sequences: of       *)
(* characters where the code searches or lower-cases them, of one token    *)
(* otherwise, so that an f-string is a concatenation.                      *)
(***************************************************************************)
EXTENDS Integers, Sequences, FiniteSets, TLC

VARIABLES
    variant,     \* which script runs: "fnb" or "fb"
    pc,          \* position of main
    lat, lon,    \* reference position (args.lat, args.lon / lat, lon)
    city,        \* city argument, NoCity when absent
    bikes,       \* free-bike records handed to group_and_sort_spots
    stations,    \* station records handed to group_and_sort_spots
    top_n,       \* top_n of the call of group_and_sort_spots
    nearest,     \* spots returned by group_and_sort_spots
    networks,    \* CityBik.es directory as fetched (r.json()["networks"])
    matches,     \* networks matching the city query
    printed,     \* candidate lines printed by fetch_citybikes_data
    exit_code,   \* process exit status, -1 while running
    gps,         \* how the device-fix attempt of get_gps_coordinates stands
    elapsed,     \* time.time() - start of get_gps_coordinates
    line,        \* the line of gpspipe read last
    cache,       \* content of LAST_COORDS_FILE, empty when the file is absent
    cache_ops,   \* the accesses of one run to LAST_COORDS_FILE, in order
    stations_info,    \* station_information feed, ["data"]["stations"]
    stations_status,  \* station_status feed, ["data"]["stations"]
    bearing,     \* math.degrees(math.atan2(y, x)) of a spot
    direction    \* the compass point computed for the bearing

\* the state of main and of the aggregation
main_vars == <<variant, pc, lat, lon, city, bikes, stations, top_n, nearest,
               networks, matches, printed, exit_code>>

\* the state of get_gps_coordinates of fbMaemo.py
gps_vars == <<gps, elapsed, line, cache, cache_ops>>

\* the two station feeds of fetch_gbfs_vienna
feed_vars == <<stations_info, stations_status>>

\* the state of the compass function
compass_vars == <<bearing, direction>>

vars == <<main_vars, gps_vars, feed_vars, compass_vars>>

----------------------------------------------------------------------------
(* Bounds of the model *)

\* total number of records (stations and free bikes) a feed delivers
MaxRecords == 4

----------------------------------------------------------------------------
(* Program constants *)

\* spots[:3] in fb.py, top_n=3 in fnb.py
TopN == 3
\* round(x, 5): a multiple of 10^-5 degree = 20 units
Round5Step == 20
\* round(x, 6): a multiple of 10^-6 degree = 2 units
Round6Step == 2
\* R = 6371 km: one coordinate unit of arc is 1/18 metre
UnitsPerMetre == 18

NoCity == <<>>

----------------------------------------------------------------------------
(* Python built-ins *)

\* round(): to the nearest multiple of step, an exact tie goes to the even one
RoundHalfEven(c, step) ==
    LET q == c \div step
        r == c % step
    IN  IF 2 * r < step THEN q * step
        ELSE IF 2 * r > step THEN (q + 1) * step
        ELSE IF q % 2 = 0 THEN q * step
        ELSE (q + 1) * step

Round5(c) == RoundHalfEven(c, Round5Step)

Round6(c) == RoundHalfEven(c, Round6Step)

\* round(dist, 3) of a distance in km: whole metres
Round3(d) == RoundHalfEven(d, UnitsPerMetre) \div UnitsPerMetre

ISqrt(n) == CHOOSE r \in 0..n : r * r <= n /\ (r + 1) * (r + 1) > n

\* a cut one element short, seq[:n-1]
Take_one_short(seq, n) == SubSeq(seq, 1, (IF n < Len(seq) THEN n ELSE Len(seq)) - 1)

\* seq[:n] for n >= 0
Take(seq, n) == SubSeq(seq, 1, IF n < Len(seq) THEN n ELSE Len(seq))

\* dict.get(field, default)
Get(rec, field, default) == IF field \in DOMAIN rec THEN rec[field] ELSE default

----------------------------------------------------------------------------
(* Geo math *)

\* haversine_distance of fnb.py, haversine of fb.py: the great-circle
\* distance between two points, in coordinate units of arc.  At the scale of
\* the model the haversine formula is the planar distance.  The guard of
\* fb.py for a None argument never fires: the reference position is numeric
\* and records without a coordinate are skipped before the distance is taken.
haversine(lat1, lon1, lat2, lon2) ==
    ISqrt((lat2 - lat1) * (lat2 - lat1) + (lon2 - lon1) * (lon2 - lon1))

----------------------------------------------------------------------------
(* spots.sort(key=lambda x: x["distance_km"]): a stable sort *)

\* x goes after every element that is not farther than x
InsertByDistance(sorted, x) ==
    LET n == Cardinality({j \in 1..Len(sorted) : sorted[j].distance_km <= x.distance_km})
    IN  SubSeq(sorted, 1, n) \o <<x>> \o SubSeq(sorted, n + 1, Len(sorted))

RECURSIVE SortFrom(_, _, _)
SortFrom(spots, i, sorted) ==
    IF i > Len(spots) THEN sorted
    ELSE SortFrom(spots, i + 1, InsertByDistance(sorted, spots[i]))

\* the list left in insertion order, the sort forgotten
SortByDistance_unsorted(spots) == spots

SortByDistance(spots) == SortFrom(spots, 1, <<>>)

----------------------------------------------------------------------------
(* group_and_sort_spots of fnb.py *)

\* s.get("free_bikes", s.get("bikes", 0))
fnb_station_bikes(s) == Get(s, "free_bikes", Get(s, "bikes", 0))

\* the key lookups bike["lat"], s["latitude"] if "latitude" in s else s["lat"]
\* raise KeyError on a record without the field
fnb_has_coordinates(r) ==
    /\ ("latitude" \in DOMAIN r \/ "lat" \in DOMAIN r)
    /\ ("longitude" \in DOMAIN r \/ "lon" \in DOMAIN r)

fnb_station_lat(s) == IF "latitude" \in DOMAIN s THEN s.latitude ELSE s.lat

fnb_station_lon(s) == IF "longitude" \in DOMAIN s THEN s.longitude ELSE s.lon

fnb_key(rlat, rlon) == <<Round5(rlat), Round5(rlon)>>

\* the membership test forgotten
fnb_is_seen_never(seen, key) == FALSE

\* if key in seen: continue
fnb_is_seen(seen, key) == key \in seen

\* the loop `for bike in bikes`, from its i-th record on
RECURSIVE fnb_bike_loop(_, _, _, _, _)
fnb_bike_loop(rlat, rlon, bs, i, acc) ==
    IF i > Len(bs) THEN acc
    ELSE LET bike == bs[i] IN
         IF ~("lat" \in DOMAIN bike /\ "lon" \in DOMAIN bike)
         THEN [acc EXCEPT !.status = "KeyError"]
         ELSE LET key == fnb_key(bike.lat, bike.lon) IN
              IF fnb_is_seen(acc.seen, key) THEN fnb_bike_loop(rlat, rlon, bs, i + 1, acc)
              ELSE fnb_bike_loop(rlat, rlon, bs, i + 1,
                     [acc EXCEPT
                        !.seen = @ \cup {key},
                        !.spots = Append(@,
                           [name |-> <<"Free-floating Bike #">> \o Get(bike, "bike_id", <<"unknown">>),
                            lat |-> key[1],
                            lon |-> key[2],
                            bikes |-> 1,
                            distance_km |-> Round3(haversine(rlat, rlon, key[1], key[2]))])])

\* the loop `for s in stations`, from its i-th record on
RECURSIVE fnb_station_loop(_, _, _, _, _)
fnb_station_loop(rlat, rlon, ss, i, acc) ==
    IF i > Len(ss) THEN acc
    ELSE LET s == ss[i] IN
         IF fnb_station_bikes(s) = 0 THEN fnb_station_loop(rlat, rlon, ss, i + 1, acc)
         ELSE IF ~fnb_has_coordinates(s) THEN [acc EXCEPT !.status = "KeyError"]
         ELSE LET key == fnb_key(fnb_station_lat(s), fnb_station_lon(s)) IN
              IF fnb_is_seen(acc.seen, key) THEN fnb_station_loop(rlat, rlon, ss, i + 1, acc)
              ELSE fnb_station_loop(rlat, rlon, ss, i + 1,
                     [acc EXCEPT
                        !.seen = @ \cup {key},
                        !.spots = Append(@,
                           [name |-> Get(s, "name", <<"Unnamed">>),
                            lat |-> key[1],
                            lon |-> key[2],
                            bikes |-> fnb_station_bikes(s),
                            distance_km |-> Round3(haversine(rlat, rlon, key[1], key[2]))])])

\* [status |-> "return", spots |-> the returned list], or status "KeyError"
fnb_group_and_sort_spots(rlat, rlon, bs, ss, n) ==
    LET a0 == [status |-> "return", seen |-> {}, spots |-> <<>>]
        a1 == fnb_bike_loop(rlat, rlon, bs, 1, a0)
        a2 == IF a1.status = "return" THEN fnb_station_loop(rlat, rlon, ss, 1, a1) ELSE a1
    IN  IF a2.status = "return"
        THEN [status |-> "return", spots |-> Take(SortByDistance(a2.spots), n)]
        ELSE [status |-> a2.status, spots |-> <<>>]

----------------------------------------------------------------------------
(* group_and_sort_spots of fb.py and fbMaemo.py *)

\* s.get("latitude", s.get("lat")) is None or s.get("longitude", s.get("lon")) is None
fb_lacks_coordinates(r) ==
    \/ ~("latitude" \in DOMAIN r \/ "lat" \in DOMAIN r)
    \/ ~("longitude" \in DOMAIN r \/ "lon" \in DOMAIN r)

fb_lat(r) == IF "latitude" \in DOMAIN r THEN r.latitude ELSE r.lat

fb_lon(r) == IF "longitude" \in DOMAIN r THEN r.longitude ELSE r.lon

\* the latitude used for both components of the key
fb_key_lat_twice(rlat, rlon) == <<Round6(rlat), Round6(rlat)>>

fb_key(rlat, rlon) == <<Round6(rlat), Round6(rlon)>>

\* spots_dict is [order |-> its keys in insertion order, info |-> key to entry]
fb_setdefault(d, key, r) ==
    IF key \in DOMAIN d.info THEN d
    ELSE [order |-> Append(d.order, key),
          info |-> (key :> [lat |-> fb_lat(r), lon |-> fb_lon(r), station_bikes |-> 0,
                            station_names |-> {}, free_bike_ids |-> {}]) @@ d.info]

\* the loop `for s in stations`, from its i-th record on
RECURSIVE fb_station_loop(_, _, _)
fb_station_loop(ss, i, d) ==
    IF i > Len(ss) THEN d
    ELSE LET s == ss[i] IN
         IF fb_lacks_coordinates(s) THEN fb_station_loop(ss, i + 1, d)
         ELSE LET key == fb_key(fb_lat(s), fb_lon(s))
                  d1 == fb_setdefault(d, key, s)
              IN  fb_station_loop(ss, i + 1,
                     [d1 EXCEPT
                        !.info[key].station_bikes = @ + Get(s, "free_bikes", 0),
                        !.info[key].station_names = @ \cup {Get(s, "name", <<"Unnamed">>)}])

\* the loop `for b in bikes`, from its i-th record on
RECURSIVE fb_bike_loop(_, _, _)
fb_bike_loop(bs, i, d) ==
    IF i > Len(bs) THEN d
    ELSE LET b == bs[i] IN
         IF fb_lacks_coordinates(b) THEN fb_bike_loop(bs, i + 1, d)
         ELSE LET key == fb_key(fb_lat(b), fb_lon(b))
                  d1 == fb_setdefault(d, key, b)
              IN  fb_bike_loop(bs, i + 1,
                     [d1 EXCEPT
                        !.info[key].free_bike_ids = @ \cup {Get(b, "bike_id", <<"unknown">>)}])

\* the loop over spots_dict.items()
fb_spots(rlat, rlon, d) ==
    [i \in 1..Len(d.order) |->
        LET key == d.order[i]
            info == d.info[key]
        IN  [lat |-> key[1],
             lon |-> key[2],
             station_names |-> info.station_names,
             station_bikes |-> info.station_bikes,
             free_bike_ids |-> info.free_bike_ids,
             distance_km |-> Round3(haversine(rlat, rlon, key[1], key[2]))]]

fb_group_and_sort_spots(rlat, rlon, bs, ss) ==
    LET d0 == [order |-> <<>>, info |-> <<>>]
        d1 == fb_station_loop(ss, 1, d0)
        d2 == fb_bike_loop(bs, 1, d1)
    IN  [status |-> "return",
         spots |-> Take(SortByDistance(fb_spots(rlat, rlon, d2)), TopN)]

----------------------------------------------------------------------------
(* Strings: str.lower(), `needle in haystack`, sorted() *)

\* the characters of the model in code-point order
Alphabet == <<"-", "B", "E", "N", "R", "W", "b", "e", "g", "i", "k", "l", "n", "r", "s", "t", "w", "x", "y">>

Ord(c) == CHOOSE k \in 1..Len(Alphabet) : Alphabet[k] = c

LowerChar(c) ==
    CASE c = "B" -> "b"
      [] c = "E" -> "e"
      [] c = "N" -> "n"
      [] c = "R" -> "r"
      [] c = "W" -> "w"
      [] OTHER -> c

Lower(str) == [k \in 1..Len(str) |-> LowerChar(str[k])]

\* needle in haystack
Contains(haystack, needle) ==
    \E k \in 0..(Len(haystack) - Len(needle)) :
        SubSeq(haystack, k + 1, k + Len(needle)) = needle

\* a < b for two strings
RECURSIVE StrLess(_, _)
StrLess(a, b) ==
    IF b = <<>> THEN FALSE
    ELSE IF a = <<>> THEN TRUE
    ELSE IF Ord(Head(a)) # Ord(Head(b)) THEN Ord(Head(a)) < Ord(Head(b))
    ELSE StrLess(Tail(a), Tail(b))

InsertStr(sorted, x) ==
    LET n == Cardinality({j \in 1..Len(sorted) : ~StrLess(x, sorted[j])})
    IN  SubSeq(sorted, 1, n) \o <<x>> \o SubSeq(sorted, n + 1, Len(sorted))

RECURSIVE SortedFrom(_, _, _)
SortedFrom(strs, i, sorted) ==
    IF i > Len(strs) THEN sorted
    ELSE SortedFrom(strs, i + 1, InsertStr(sorted, strs[i]))

\* sorted(list of strings)
Sorted(strs) == SortedFrom(strs, 1, <<>>)

----------------------------------------------------------------------------
(* fetch_citybikes_data *)

NextbikeTag == <<"n", "e", "x", "t", "b", "i", "k", "e">>

\* "nextbike" in n["id"] and city_name.lower() in n["location"]["city"].lower()
fnb_is_match(n, city_name) ==
    /\ Contains(n.id, NextbikeTag)
    /\ Contains(Lower(n.city), Lower(city_name))

\* city_query.lower() in n["location"]["city"].lower()
fb_is_match(n, city_query) == Contains(Lower(n.city), Lower(city_query))

fnb_matches(nets, city_name) ==
    LET Keep(n) == fnb_is_match(n, city_name) IN SelectSeq(nets, Keep)

fb_matches(nets, city_query) ==
    LET Keep(n) == fb_is_match(n, city_query) IN SelectSeq(nets, Keep)

\* the lines "- <city>" printed after the heading when the match is not unique
fnb_candidates(nets) ==
    LET Keep(n) == Contains(n.id, NextbikeTag)
        nb == SelectSeq(nets, Keep)
        all_cities == Sorted([k \in 1..Len(nb) |-> nb[k].city])
    IN  [k \in 1..Len(all_cities) |-> [city |-> all_cities[k]]]

\* the lines "- <city> (<id>)" printed for several matches; none for no match
fb_candidates(ms) ==
    IF Len(ms) > 1 THEN [k \in 1..Len(ms) |-> [city |-> ms[k].city, id |-> ms[k].id]]
    ELSE <<>>

----------------------------------------------------------------------------
(* What the outside world can deliver *)

\* reference positions given on the command line
RefPoints == {<<0, 0>>, <<80, 0>>}

\* Station records of the Vienna GBFS feed as the variant's adapter shapes
\* them: the count is "bikes" in fnb.py and "free_bikes" in fb.py.  Two
\* stations share a rounded coordinate, one is empty, two lack a coordinate.
GbfsStation(v, name, rlat, rlon, n) ==
    IF v = "fnb" THEN [name |-> name, lat |-> rlat, lon |-> rlon, bikes |-> n]
    ELSE [name |-> name, lat |-> rlat, lon |-> rlon, free_bikes |-> n]

GbfsStations(v) ==
    { GbfsStation(v, <<"A">>, 40, 0, 2),
      GbfsStation(v, <<"B">>, 41, 0, 1),
      GbfsStation(v, <<"C">>, 0, 40, 0),
      GbfsStation(v, <<"D">>, 0, 80, 3),
      IF v = "fnb" THEN [name |-> <<"F">>, lon |-> 0, bikes |-> 1]
                   ELSE [name |-> <<"F">>, lon |-> 0, free_bikes |-> 1],
      IF v = "fnb" THEN [name |-> <<"G">>, lat |-> 40, bikes |-> 0]
                   ELSE [name |-> <<"G">>, lat |-> 40, free_bikes |-> 0] }

\* Free-bike records: two bikes at the coordinate of station A, two bikes
\* without bike_id at the coordinate of station C, one on its own, one
\* without longitude.
FreeBikes ==
    { [bike_id |-> <<"b1">>, lat |-> 40, lon |-> 0],
      [bike_id |-> <<"b2">>, lat |-> 41, lon |-> 0],
      [lat |-> 0, lon |-> 40],
      [lat |-> 0, lon |-> 41],
      [bike_id |-> <<"b3">>, lat |-> 80, lon |-> 0],
      [bike_id |-> <<"b4">>, lat |-> 80] }

\* Station records of a CityBik.es network
CityStations ==
    { [name |-> <<"A">>, latitude |-> 40, longitude |-> 0, free_bikes |-> 2],
      [name |-> <<"B">>, latitude |-> 41, longitude |-> 0, free_bikes |-> 1],
      [name |-> <<"C">>, latitude |-> 0, longitude |-> 40, free_bikes |-> 0],
      [name |-> <<"D">>, latitude |-> 80, longitude |-> 0, free_bikes |-> 3],
      [name |-> <<"F">>, longitude |-> 0, free_bikes |-> 1] }

\* lists of n records
Lists(S, n) == [1..n -> S]

\* The CityBik.es directory: any selection of four networks, one of them
\* not a Nextbike network
Bern == [id |-> NextbikeTag \o <<"-", "b", "e">>, city |-> <<"B", "e", "r", "n">>]

Berlin == [id |-> NextbikeTag \o <<"-", "b", "l">>, city |-> <<"B", "e", "r", "l", "i", "n">>]

Wien == [id |-> NextbikeTag \o <<"-", "w", "r">>, city |-> <<"W", "i", "e", "n">>]

Bergen == [id |-> <<"b", "y", "s", "y", "k", "k", "e", "l">>, city |-> <<"B", "e", "r", "g", "e", "n">>]

Directories ==
    { SelectSeq(<<Wien, Bern, Bergen, Berlin>>, LAMBDA n : n \in sel) :
        sel \in SUBSET {Wien, Bern, Bergen, Berlin} }

Queries == { <<"b", "e", "r">>, <<"B", "E", "R", "N">>, <<"w", "i", "e", "n">> }

----------------------------------------------------------------------------
(* The state before get_gps_coordinates, fetch_gbfs_vienna and the compass  *)
(* function have run                                                        *)

\* no line of gpspipe has been read
NoLine == [class |-> "none"]

\* LAST_COORDS_FILE does not exist
NoCache == <<>>

GpsUnused ==
    /\ gps = "unused"
    /\ elapsed = 0
    /\ line = NoLine
    /\ cache = NoCache
    /\ cache_ops = <<>>

FeedsUnread ==
    /\ stations_info = <<>>
    /\ stations_status = <<>>

CompassUnused ==
    /\ bearing = 0
    /\ direction = ""

----------------------------------------------------------------------------
(* main *)

Variants == {"fnb", "fb"}

Init ==
    /\ variant \in Variants
    /\ pc = "start"
    /\ lat = 0
    /\ lon = 0
    /\ city = NoCity
    /\ bikes = <<>>
    /\ stations = <<>>
    /\ top_n = TopN
    /\ nearest = <<>>
    /\ networks = <<>>
    /\ matches = <<>>
    /\ printed = <<>>
    /\ exit_code = -1
    /\ GpsUnused
    /\ FeedsUnread
    /\ CompassUnused

\* parser.parse_args() with latitude and longitude given, the city optional
ParseArgs ==
    /\ pc = "start"
    /\ \E p \in RefPoints : lat' = p[1] /\ lon' = p[2]
    /\ city' \in {NoCity} \cup Queries
    /\ pc' = "fetch"
    /\ UNCHANGED <<variant, bikes, stations, top_n, nearest, networks, matches,
                   printed, exit_code>>
    /\ UNCHANGED <<gps_vars, feed_vars, compass_vars>>

\* city is None: bikes, stations, city = fetch_gbfs_vienna()
FetchGbfsVienna ==
    /\ pc = "fetch"
    /\ city = NoCity
    /\ \E ns \in 0..MaxRecords :
         \E nb \in 0..(MaxRecords - ns) :
            /\ stations' \in Lists(GbfsStations(variant), ns)
            /\ bikes' \in Lists(FreeBikes, nb)
    /\ pc' = "aggregate"
    /\ UNCHANGED <<variant, lat, lon, city, top_n, nearest, networks, matches,
                   printed, exit_code>>
    /\ UNCHANGED <<gps_vars, feed_vars, compass_vars>>

\* fetch_citybikes_data: the directory request and the filter of the matches
FetchNetworks ==
    /\ pc = "fetch"
    /\ city # NoCity
    /\ networks' \in Directories
    /\ matches' = IF variant = "fnb" THEN fnb_matches(networks', city)
                  ELSE fb_matches(networks', city)
    /\ pc' = "matched"
    /\ UNCHANGED <<variant, lat, lon, city, bikes, stations, top_n, nearest,
                   printed, exit_code>>
    /\ UNCHANGED <<gps_vars, feed_vars, compass_vars>>

\* fetch_citybikes_data, len(matches) == 1: the stations of the network are
\* returned, main sets bikes = []
CitybikesReturn ==
    /\ pc = "matched"
    /\ Len(matches) = 1
    /\ \E ns \in 0..MaxRecords : stations' \in Lists(CityStations, ns)
    /\ bikes' = <<>>
    /\ networks' = <<>>
    /\ matches' = <<>>
    /\ pc' = "aggregate"
    /\ UNCHANGED <<variant, lat, lon, city, top_n, nearest, printed, exit_code>>
    /\ UNCHANGED <<gps_vars, feed_vars, compass_vars>>

\* fetch_citybikes_data, no match or several: print the candidates, exit(1)
CitybikesExit ==
    /\ pc = "matched"
    /\ Len(matches) # 1
    /\ printed' = IF variant = "fnb" THEN fnb_candidates(networks)
                  ELSE fb_candidates(matches)
    /\ exit_code' = 1
    /\ pc' = "exit"
    /\ UNCHANGED <<variant, lat, lon, city, bikes, stations, top_n, nearest,
                   networks, matches>>
    /\ UNCHANGED <<gps_vars, feed_vars, compass_vars>>

\* nearest = group_and_sort_spots(lat, lon, bikes, stations); main goes on
\* to its report ("report"), or the call raised KeyError ("raised").  fb.py
\* always cuts at 3; in fnb.py the cut is the parameter top_n.
GroupAndSortSpots ==
    /\ pc = "aggregate"
    /\ top_n' \in IF variant = "fnb" THEN 1..TopN ELSE {TopN}
    /\ LET res == IF variant = "fnb"
                  THEN fnb_group_and_sort_spots(lat, lon, bikes, stations, top_n')
                  ELSE fb_group_and_sort_spots(lat, lon, bikes, stations)
       IN  /\ nearest' = res.spots
           /\ pc' = IF res.status = "return" THEN "report" ELSE "raised"
           /\ exit_code' = IF res.status = "return" THEN exit_code ELSE 1
    /\ UNCHANGED <<variant, lat, lon, city, bikes, stations, networks, matches,
                   printed>>
    /\ UNCHANGED <<gps_vars, feed_vars, compass_vars>>

Next ==
    \/ ParseArgs
    \/ FetchGbfsVienna
    \/ FetchNetworks
    \/ CitybikesReturn
    \/ CitybikesExit
    \/ GroupAndSortSpots

Spec == Init /\ [][Next]_vars

----------------------------------------------------------------------------
(* get_gps_coordinates of fbMaemo.py and the branches of its main.  The     *)
(* preparation of the receiver (GNSS power, A-GPS injection, gpsd) touches  *)
(* neither the coordinate nor LAST_COORDS_FILE and is left out.             *)

\* timeout=30 seconds, the clock counting steps of 10 seconds
GpsTimeout == 3

\* how far the clock is followed
MaxElapsed == 5

\* Python values that may be None: None, or the number n
None == <<>>

Some(n) == <<n>>

\* bool(v) of a number or None, as `if lat and lon` takes it
Truthy(v) == v # None /\ v # Some(0)

\* the file rewritten with the key/value pair of one coordinate, fix
\* latitude and longitude exchanged
save_last_coordinates_swapped(flat, flon) == <<[lat |-> flon, lon |-> flat]>>

\* json.dump({"lat": lat, "lon": lon}, f) on the file opened with "w"
save_last_coordinates(flat, flon) == <<[lat |-> flat, lon |-> flon]>>

\* data["lat"], data["lon"]; (None, None) when open, json.load or a key fails
load_last_coordinates(file) ==
    IF file # NoCache /\ "lat" \in DOMAIN file[1] /\ "lon" \in DOMAIN file[1]
    THEN <<Some(file[1].lat), Some(file[1].lon)>>
    ELSE <<None, None>>

\* '"class":"TPV"' in line
is_tpv(l) == l.class = "TPV"

\* json.loads(line) does not raise JSONDecodeError
decodes(l) == "truncated" \notin DOMAIN l

\* data.get("mode", 0) >= 2 and "lat" in data and "lon" in data
is_fix(data) ==
    /\ Get(data, "mode", 0) >= 2
    /\ "lat" \in DOMAIN data
    /\ "lon" \in DOMAIN data

\* Lines of gpspipe -w: a report of another class, TPV reports without a
\* fix (mode 1, no longitude, no mode), a TPV line cut short, and two fixes,
\* one of them at latitude 0 and longitude 0.
GpsLines ==
    { [class |-> "SKY"],
      [class |-> "TPV", mode |-> 1],
      [class |-> "TPV", mode |-> 3, lat |-> 80],
      [class |-> "TPV", lat |-> 80, lon |-> 0],
      [class |-> "TPV", truncated |-> TRUE],
      [class |-> "TPV", mode |-> 2, lat |-> 0, lon |-> 0],
      [class |-> "TPV", mode |-> 3, lat |-> 40, lon |-> 80] }

\* What LAST_COORDS_FILE can hold when a run starts: nothing, the coordinate
\* an earlier run saved, or a record without longitude.
Caches ==
    {NoCache}
    \cup { save_last_coordinates(a, b) : a \in {0, 80}, b \in {0, 80} }
    \cup { <<[lat |-> 80]>> }

InitGps ==
    /\ variant = "fb"
    /\ pc = "start"
    /\ lat = 0
    /\ lon = 0
    /\ city = NoCity
    /\ bikes = <<>>
    /\ stations = <<>>
    /\ top_n = TopN
    /\ nearest = <<>>
    /\ networks = <<>>
    /\ matches = <<>>
    /\ printed = <<>>
    /\ exit_code = -1
    /\ gps = "unused"
    /\ elapsed = 0
    /\ line = NoLine
    /\ cache \in Caches
    /\ cache_ops = <<>>
    /\ FeedsUnread
    /\ CompassUnused

\* main with latitude and longitude on the command line (param2 is given):
\* lat, lon = float(param1), float(param2), the city optional
MainWithCoordinates ==
    /\ pc = "start"
    /\ \E p \in RefPoints : lat' = p[1] /\ lon' = p[2]
    /\ city' \in {NoCity} \cup Queries
    /\ pc' = "fetch"
    /\ UNCHANGED <<variant, bikes, stations, top_n, nearest, networks, matches,
                   printed, exit_code>>
    /\ UNCHANGED <<gps_vars, feed_vars, compass_vars>>

\* main without coordinates (param1 or param2 is None): get_gps_coordinates
\* is called, opens gpspipe and takes start = time.time()
MainWithGps ==
    /\ pc = "start"
    /\ city' \in {NoCity} \cup Queries
    /\ gps' = "waiting"
    /\ elapsed' = 0
    /\ pc' = "gps"
    /\ UNCHANGED <<variant, lat, lon, bikes, stations, top_n, nearest, networks,
                   matches, printed, exit_code>>
    /\ UNCHANGED <<line, cache, cache_ops, feed_vars, compass_vars>>

\* time passes while `for line in proc.stdout` waits for the next line
GpsTick ==
    /\ pc = "gps"
    /\ elapsed < MaxElapsed
    /\ elapsed' = elapsed + 1
    /\ UNCHANGED <<main_vars, gps, line, cache, cache_ops, feed_vars, compass_vars>>

\* One turn of the loop: gpspipe delivers a line.  A fix is saved and
\* returned; a TPV line that does not decode goes to the next line by
\* `continue`; after every other line the clock is compared with the timeout.
GpsReadLine ==
    /\ pc = "gps"
    /\ \E l \in GpsLines :
         /\ line' = l
         /\ IF is_tpv(l) /\ decodes(l) /\ is_fix(l)
            THEN /\ cache' = save_last_coordinates(l.lat, l.lon)
                 /\ cache_ops' = Append(cache_ops, [op |-> "write", data |-> cache'[1]])
                 /\ lat' = l.lat
                 /\ lon' = l.lon
                 /\ gps' = "fix"
                 /\ pc' = "fetch"
            ELSE IF (is_tpv(l) /\ ~decodes(l)) \/ ~(elapsed > GpsTimeout)
            THEN UNCHANGED <<pc, lat, lon, gps, cache, cache_ops>>
            ELSE /\ gps' = "timeout"
                 /\ pc' = "fallback"
                 /\ UNCHANGED <<lat, lon, cache, cache_ops>>
    /\ UNCHANGED <<variant, city, bikes, stations, top_n, nearest, networks,
                   matches, printed, exit_code>>
    /\ UNCHANGED <<elapsed, feed_vars, compass_vars>>

\* proc.stdout is at its end (gpspipe has gone): the loop is left
GpsEndOfStream ==
    /\ pc = "gps"
    /\ gps' = "eof"
    /\ pc' = "fallback"
    /\ UNCHANGED <<variant, lat, lon, city, bikes, stations, top_n, nearest,
                   networks, matches, printed, exit_code>>
    /\ UNCHANGED <<elapsed, line, cache, cache_ops, feed_vars, compass_vars>>

\* Popen or the read raises: except Exception prints the read error
GpsReadError ==
    /\ pc = "gps"
    /\ gps' = "error"
    /\ pc' = "fallback"
    /\ UNCHANGED <<variant, lat, lon, city, bikes, stations, top_n, nearest,
                   networks, matches, printed, exit_code>>
    /\ UNCHANGED <<elapsed, line, cache, cache_ops, feed_vars, compass_vars>>

\* "Use fallback": lat, lon = load_last_coordinates(); `if lat and lon`
\* returns them, else exit(1)
GpsFallback ==
    /\ pc = "fallback"
    /\ cache_ops' = Append(cache_ops, [op |-> "read"])
    /\ LET loaded == load_last_coordinates(cache)
       IN  IF Truthy(loaded[1]) /\ Truthy(loaded[2])
           THEN /\ lat' = loaded[1][1]
                /\ lon' = loaded[2][1]
                /\ pc' = "fetch"
                /\ UNCHANGED exit_code
           ELSE /\ exit_code' = 1
                /\ pc' = "exit"
                /\ UNCHANGED <<lat, lon>>
    /\ UNCHANGED <<variant, city, bikes, stations, top_n, nearest, networks,
                   matches, printed>>
    /\ UNCHANGED <<gps, elapsed, line, cache, feed_vars, compass_vars>>

NextGps ==
    \/ MainWithCoordinates
    \/ MainWithGps
    \/ GpsTick
    \/ GpsReadLine
    \/ GpsEndOfStream
    \/ GpsReadError
    \/ GpsFallback

SpecGps == InitGps /\ [][NextGps]_vars

\* The steps the script takes by itself happen, and the clock goes on.  That
\* gpspipe delivers a line, ends or fails is up to the receiver: no fairness.
SpecGpsFair ==
    /\ SpecGps
    /\ WF_vars(MainWithCoordinates \/ MainWithGps)
    /\ WF_vars(GpsTick)
    /\ WF_vars(GpsFallback)

----------------------------------------------------------------------------
(* fetch_gbfs_vienna: the station feeds merged by station_id.  A dict is    *)
(* its keys in insertion order and the value of every key.                  *)

\* entries a station feed delivers
MaxFeed == 2

EmptyDict == [keys |-> <<>>, val |-> <<>>]

\* d[key] = value: a new key goes to the end, a known key keeps its place
DictSet(d, key, value) ==
    [keys |-> IF key \in DOMAIN d.val THEN d.keys ELSE Append(d.keys, key),
     val  |-> [k \in DOMAIN d.val \cup {key} |-> IF k = key THEN value ELSE d.val[k]]]

\* list(d.values())
DictValues(d) == [i \in 1..Len(d.keys) |-> d.val[d.keys[i]]]

\* {**rec, field: value}
With(rec, field, value) ==
    [k \in DOMAIN rec \cup {field} |-> IF k = field THEN value ELSE rec[k]]

\* a station entered with one bike instead of none
fnb_station_record_one_bike(s) ==
    [name |-> Get(s, "name", <<"Unnamed">>), lat |-> s.lat, lon |-> s.lon, bikes |-> 1]

\* fnb.py: the value stored for a station of the information feed
fnb_station_record(s) ==
    [name |-> Get(s, "name", <<"Unnamed">>), lat |-> s.lat, lon |-> s.lon, bikes |-> 0]

\* fnb.py: for s in stations_info: stations[s["station_id"]] = {...}
RECURSIVE fnb_info_loop(_, _, _)
fnb_info_loop(info, i, d) ==
    IF i > Len(info) THEN d
    ELSE fnb_info_loop(info, i + 1,
                       DictSet(d, info[i].station_id, fnb_station_record(info[i])))

\* fnb.py: for s in stations_status: if sid in stations:
\* stations[sid]["bikes"] = s.get("num_bikes_available", 0)
RECURSIVE fnb_status_loop(_, _, _)
fnb_status_loop(status, i, d) ==
    IF i > Len(status) THEN d
    ELSE LET s   == status[i]
             sid == s.station_id
         IN  fnb_status_loop(status, i + 1,
                 IF sid \in DOMAIN d.val
                 THEN DictSet(d, sid, With(d.val[sid], "bikes",
                                           Get(s, "num_bikes_available", 0)))
                 ELSE d)

\* fnb.py: list(stations.values())
fnb_gbfs_stations(info, status) ==
    DictValues(fnb_status_loop(status, 1, fnb_info_loop(info, 1, EmptyDict)))

\* fb.py: {s["station_id"]: s for s in feed}
RECURSIVE fb_by_station_id(_, _, _)
fb_by_station_id(feed, i, d) ==
    IF i > Len(feed) THEN d
    ELSE fb_by_station_id(feed, i + 1, DictSet(d, feed[i].station_id, feed[i]))

\* fb.py: status_stations.get(sid, {}).get("num_bikes_available", 0)
fb_num_bikes_available(status_stations, sid) ==
    IF sid \in DOMAIN status_stations.val
    THEN Get(status_stations.val[sid], "num_bikes_available", 0)
    ELSE 0

\* fb.py: merged, one copy of every value of info_stations with free_bikes
fb_gbfs_stations(info, status) ==
    LET info_stations   == fb_by_station_id(info, 1, EmptyDict)
        status_stations == fb_by_station_id(status, 1, EmptyDict)
    IN  [i \in 1..Len(info_stations.keys) |->
            LET sid == info_stations.keys[i]
            IN  With(info_stations.val[sid], "free_bikes",
                     fb_num_bikes_available(status_stations, sid))]

\* Entries of station_information: two entries carry the same station_id,
\* one has no name.
InfoStations ==
    { [station_id |-> "s1", name |-> <<"A">>, lat |-> 40, lon |-> 0],
      [station_id |-> "s2", name |-> <<"B">>, lat |-> 41, lon |-> 0],
      [station_id |-> "s1", name |-> <<"A2">>, lat |-> 0, lon |-> 40],
      [station_id |-> "s3", lat |-> 0, lon |-> 80] }

\* Entries of station_status: two entries carry the same station_id, one id
\* is in no entry of station_information, one entry has no count.
StatusStations ==
    { [station_id |-> "s1", num_bikes_available |-> 2],
      [station_id |-> "s1", num_bikes_available |-> 3],
      [station_id |-> "s2", num_bikes_available |-> 1],
      [station_id |-> "s9", num_bikes_available |-> 3],
      [station_id |-> "s2"] }

\* main has its position and no city: fetch_gbfs_vienna is about to be called
InitGbfs ==
    /\ variant \in Variants
    /\ pc = "fetch"
    /\ lat = 0
    /\ lon = 0
    /\ city = NoCity
    /\ bikes = <<>>
    /\ stations = <<>>
    /\ top_n = TopN
    /\ nearest = <<>>
    /\ networks = <<>>
    /\ matches = <<>>
    /\ printed = <<>>
    /\ exit_code = -1
    /\ GpsUnused
    /\ FeedsUnread
    /\ CompassUnused

\* bikes, stations, city = fetch_gbfs_vienna(): the three feeds are read and
\* the stations are merged
FetchGbfsFeeds ==
    /\ pc = "fetch"
    /\ city = NoCity
    /\ \E ni \in 0..MaxFeed : stations_info' \in Lists(InfoStations, ni)
    /\ \E ns \in 0..MaxFeed : stations_status' \in Lists(StatusStations, ns)
    /\ \E nb \in 0..1 : bikes' \in Lists(FreeBikes, nb)
    /\ stations' = IF variant = "fnb"
                   THEN fnb_gbfs_stations(stations_info', stations_status')
                   ELSE fb_gbfs_stations(stations_info', stations_status')
    /\ pc' = "aggregate"
    /\ UNCHANGED <<variant, lat, lon, city, top_n, nearest, networks, matches,
                   printed, exit_code>>
    /\ UNCHANGED <<gps_vars, compass_vars>>

NextGbfs == FetchGbfsFeeds

SpecGbfs == InitGbfs /\ [][NextGbfs]_vars

----------------------------------------------------------------------------
(* The compass point of a bearing: compass_direction of fnb.py,             *)
(* calculate_direction of fb.py and fbMaemo.py.  Angles are integers        *)
(* counting half degrees.  The bearing is the angle in degrees that the     *)
(* functions get from atan2, in (-180, 180]; fb.py converts it from radians *)
(* with 180 / 3.14159265, which moves an angle by a billionth of its size.  *)

\* 180 degrees, the largest value of atan2
HalfTurn == 360

\* 360 degrees
FullTurn == 720

\* 45 degrees, the width of a compass sector
Sector == 90

\* 22.5 degrees
HalfSector == 45

\* compass of fnb.py, directions of fb.py
compass == <<"N", "NE", "E", "SE", "S", "SW", "W", "NW">>

\* (bearing + 360) % 360
Normalized(b) == (b + FullTurn) % FullTurn

\* fnb.py: idx = round(((bearing + 360) % 360) / 45) % 8
compass_direction(b) ==
    LET idx == (RoundHalfEven(Normalized(b), Sector) \div Sector) % 8
    IN  compass[idx + 1]

\* fb.py: idx = int((bearing + 22.5) // 45) % 8
calculate_direction(b) ==
    LET idx == ((Normalized(b) + HalfSector) \div Sector) % 8
    IN  compass[idx + 1]

Bearings == (1 - HalfTurn)..HalfTurn

\* the bearing of a spot is known, its compass point is not
InitCompass ==
    /\ variant \in Variants
    /\ pc = "bearing"
    /\ lat = 0
    /\ lon = 0
    /\ city = NoCity
    /\ bikes = <<>>
    /\ stations = <<>>
    /\ top_n = TopN
    /\ nearest = <<>>
    /\ networks = <<>>
    /\ matches = <<>>
    /\ printed = <<>>
    /\ exit_code = -1
    /\ GpsUnused
    /\ FeedsUnread
    /\ bearing \in Bearings
    /\ direction = ""

\* the index into the compass list is computed and the point returned
CompassPoint ==
    /\ pc = "bearing"
    /\ direction' = IF variant = "fnb" THEN compass_direction(bearing)
                    ELSE calculate_direction(bearing)
    /\ pc' = "direction"
    /\ UNCHANGED <<variant, lat, lon, city, bikes, stations, top_n, nearest,
                   networks, matches, printed, exit_code>>
    /\ UNCHANGED <<gps_vars, feed_vars, bearing>>

NextCompass == CompassPoint

SpecCompass == InitCompass /\ [][NextCompass]_vars

----------------------------------------------------------------------------
(* Vocabulary of the properties *)

\* group_and_sort_spots has returned its list to main
Returned == pc = "report"

\* group_and_sort_spots has been called and has returned or raised
Called == pc \in {"report", "raised"}

IndexPairs(seq) == {p \in (1..Len(seq)) \X (1..Len(seq)) : p[1] < p[2]}

WellFormed(r) ==
    /\ ("latitude" \in DOMAIN r \/ "lat" \in DOMAIN r)
    /\ ("longitude" \in DOMAIN r \/ "lon" \in DOMAIN r)

RawLat(r) == IF "latitude" \in DOMAIN r THEN r.latitude ELSE r.lat

RawLon(r) == IF "longitude" \in DOMAIN r THEN r.longitude ELSE r.lon

\* the rounded coordinate of a record: 5 decimals in fnb.py, 6 in fb.py
Precision == IF variant = "fnb" THEN Round5Step ELSE Round6Step

KeyOfRecord(r) == <<RoundHalfEven(RawLat(r), Precision), RoundHalfEven(RawLon(r), Precision)>>

KeyOfSpot(spot) == <<spot.lat, spot.lon>>

\* the available-bike count of a station record
CountOf(s) ==
    IF "free_bikes" \in DOMAIN s THEN s.free_bikes
    ELSE IF "bikes" \in DOMAIN s THEN s.bikes ELSE 0

\* positions of the well-formed records of a list that lie at a key
IndicesAt(recs, key) ==
    {i \in 1..Len(recs) : WellFormed(recs[i]) /\ KeyOfRecord(recs[i]) = key}

RECURSIVE SumCounts(_, _)
SumCounts(recs, idx) ==
    IF idx = {} THEN 0
    ELSE LET i == CHOOSE j \in idx : TRUE
         IN  CountOf(recs[i]) + SumCounts(recs, idx \ {i})

\* what a spot reports
SpotBikeCount(spot) == IF variant = "fnb" THEN spot.bikes ELSE spot.station_bikes

SpotNames(spot) == IF variant = "fnb" THEN {spot.name} ELSE spot.station_names

SpotHasBikes(spot) ==
    IF variant = "fnb" THEN spot.bikes > 0
    ELSE spot.station_bikes > 0 \/ spot.free_bike_ids # {}

\* the distance the report shows for a rounded coordinate, in metres
DistanceTo(key) == Round3(haversine(lat, lon, key[1], key[2]))

\* The coordinates that get a spot: in fnb.py those of the free bikes and of
\* the stations with bikes, in fb.py those of all records with a coordinate.
SpotKeys ==
    { KeyOfRecord(bikes[i]) : i \in {j \in 1..Len(bikes) : WellFormed(bikes[j])} }
    \cup
    { KeyOfRecord(stations[i]) :
        i \in {j \in 1..Len(stations) :
                 /\ WellFormed(stations[j])
                 /\ (variant = "fnb" => CountOf(stations[j]) # 0)} }

ReturnedKeys == {KeyOfSpot(nearest[i]) : i \in 1..Len(nearest)}

Min(a, b) == IF a < b THEN a ELSE b

----------------------------------------------------------------------------
(* C1: group_and_sort_spots returns at most top_n spots (3 when top_n is    *)
(* not given), and distance_km never decreases along the returned list.     *)
C1_AtMostTopNSorted ==
    Returned =>
        /\ Len(nearest) <= top_n
        /\ \A p \in IndexPairs(nearest) :
              nearest[p[1]].distance_km <= nearest[p[2]].distance_km

\* a call that had to reorder and to cut: four coordinates in the feed, the
\* first record of the feed is not the nearest, three spots at different
\* distances returned
C1_Witness ==
    /\ Returned
    /\ top_n = TopN
    /\ Cardinality(SpotKeys) > TopN
    /\ Len(nearest) = TopN
    /\ nearest[1].distance_km < nearest[TopN].distance_km
    /\ Len(stations) > 1
    /\ WellFormed(stations[1])
    /\ DistanceTo(KeyOfRecord(stations[1])) > nearest[TopN].distance_km

(* C2: no two spots of the result of group_and_sort_spots have the same     *)
(* rounded (lat, lon), whatever stations and free bikes share coordinates.  *)
C2_UniqueKeys ==
    Returned =>
        \A p \in IndexPairs(nearest) : KeyOfSpot(nearest[p[1]]) # KeyOfSpot(nearest[p[2]])

\* a station and a free bike with different raw coordinates fall on one
\* rounded coordinate, and the result has a spot there and one elsewhere
C2_Witness ==
    /\ Returned
    /\ Len(nearest) >= 2
    /\ \E i \in 1..Len(stations) : \E j \in 1..Len(bikes) :
          /\ WellFormed(stations[i]) /\ WellFormed(bikes[j])
          /\ CountOf(stations[i]) > 0
          /\ RawLat(stations[i]) # RawLat(bikes[j])
          /\ KeyOfRecord(stations[i]) = KeyOfRecord(bikes[j])
          /\ KeyOfRecord(stations[i]) \in ReturnedKeys

(* C3: the bike count of every returned spot is the sum of the available-   *)
(* bike counts of all input stations at the spot's rounded coordinate, also *)
(* when several stations share it.  Stated for the spots at whose           *)
(* coordinate no free bike lies, where the count can only be the stations'. *)
C3_CountIsStationSum ==
    Returned =>
        \A i \in 1..Len(nearest) :
            IndicesAt(bikes, KeyOfSpot(nearest[i])) = {} =>
                SpotBikeCount(nearest[i]) =
                    SumCounts(stations, IndicesAt(stations, KeyOfSpot(nearest[i])))

(* C4: one station with bikes and one free bike at the same rounded         *)
(* coordinate give exactly one spot, with the station's name, the station's *)
(* bike count and the free bike.                                            *)
C4_StationAndBikeMerge ==
    ( /\ Returned
      /\ Len(stations) = 1 /\ Len(bikes) = 1
      /\ WellFormed(stations[1]) /\ WellFormed(bikes[1])
      /\ CountOf(stations[1]) > 0
      /\ KeyOfRecord(stations[1]) = KeyOfRecord(bikes[1]) )
    =>
    /\ Len(nearest) = 1
    /\ KeyOfSpot(nearest[1]) = KeyOfRecord(stations[1])
    /\ SpotNames(nearest[1]) = {stations[1].name}
    /\ SpotBikeCount(nearest[1]) = CountOf(stations[1])
    /\ variant = "fb" => Cardinality(nearest[1].free_bike_ids) = 1

\* the records of a list that have both coordinates
WithoutMalformed(recs) == SelectSeq(recs, WellFormed)

(* C5: a record without latitude or longitude is skipped silently: the call *)
(* does not raise, and returns what it returns without that record.         *)
C5_MalformedSkipped ==
    Called =>
        /\ pc # "raised"
        /\ nearest =
             IF variant = "fnb"
             THEN fnb_group_and_sort_spots(lat, lon, WithoutMalformed(bikes),
                                           WithoutMalformed(stations), top_n).spots
             ELSE fb_group_and_sort_spots(lat, lon, WithoutMalformed(bikes),
                                          WithoutMalformed(stations)).spots

(* C6: no returned spot has zero available bikes; an empty station without  *)
(* a free bike at its coordinate is never in the result.                    *)
C6_NoEmptySpot ==
    Returned => \A i \in 1..Len(nearest) : SpotHasBikes(nearest[i])

(* C7: the result is the first min(top_n, k) of the k deduplicated spots in *)
(* ascending distance: all of them when k <= top_n, none when k = 0, and    *)
(* every spot left out is at least as far as every spot returned.           *)
C7_NearestPrefix ==
    Returned =>
        /\ Len(nearest) = Min(top_n, Cardinality(SpotKeys))
        /\ Cardinality(ReturnedKeys) = Len(nearest)
        /\ ReturnedKeys \subseteq SpotKeys
        /\ \A i \in 1..Len(nearest) :
              /\ nearest[i].distance_km = DistanceTo(KeyOfSpot(nearest[i]))
              /\ \A k \in SpotKeys \ ReturnedKeys : nearest[i].distance_km <= DistanceTo(k)

\* four coordinates in the feed, the three nearest returned and a strictly
\* farther one left out
C7_Witness ==
    /\ Returned
    /\ top_n = TopN
    /\ Len(nearest) = TopN
    /\ \E k \in SpotKeys \ ReturnedKeys : DistanceTo(k) > nearest[TopN].distance_km

\* the place the claimed insertion order gives a coordinate: the free bikes
\* in list order, then the stations in list order
InsertionRank(key) ==
    LET bi == IndicesAt(bikes, key)
        si == {i \in IndicesAt(stations, key) :
                 variant = "fnb" => CountOf(stations[i]) # 0}
    IN  IF bi # {} THEN CHOOSE i \in bi : \A j \in bi : i <= j
        ELSE Len(bikes) + (CHOOSE i \in si : \A j \in si : i <= j)

(* C8: spots at equal distance are ordered by insertion, where every spot   *)
(* created from a free bike precedes every spot created from a station and  *)
(* each list keeps its order; the same order decides which of the tied      *)
(* spots survive the cut.                                                   *)
C8_TiesByInsertionOrder ==
    Returned =>
        /\ \A p \in IndexPairs(nearest) :
              nearest[p[1]].distance_km = nearest[p[2]].distance_km =>
                 InsertionRank(KeyOfSpot(nearest[p[1]])) < InsertionRank(KeyOfSpot(nearest[p[2]]))
        /\ \A i \in 1..Len(nearest) :
              \A k \in SpotKeys \ ReturnedKeys :
                 DistanceTo(k) = nearest[i].distance_km =>
                    InsertionRank(KeyOfSpot(nearest[i])) < InsertionRank(k)

(* C9 as claimed: in fb.py the size of free_bike_ids of a returned spot is  *)
(* the number of distinct free-bike records at the spot's coordinate,       *)
(* records without bike_id included.                                        *)
C9_IdsCountRecords ==
    (Returned /\ variant = "fb") =>
        \A i \in 1..Len(nearest) :
            Cardinality(nearest[i].free_bike_ids) =
                Cardinality({bikes[j] : j \in IndicesAt(bikes, KeyOfSpot(nearest[i]))})

(* C9 amended: in fb.py free_bike_ids of a returned spot is the set of the  *)
(* bike_id values of the free-bike records at the spot's coordinate, all    *)
(* records without bike_id counting as the one identifier "unknown"; a free *)
(* bike at another coordinate never contributes.                            *)
C9_IdsAreDistinctIdentifiers ==
    (Returned /\ variant = "fb") =>
        \A i \in 1..Len(nearest) :
            nearest[i].free_bike_ids =
                { IF "bike_id" \in DOMAIN bikes[j] THEN bikes[j].bike_id ELSE <<"unknown">> :
                    j \in IndicesAt(bikes, KeyOfSpot(nearest[i])) }

\* a spot with two identified bikes that differ in their raw coordinates,
\* while a third bike lies elsewhere
C9_Witness ==
    /\ Returned /\ variant = "fb"
    /\ Len(bikes) = 3
    /\ \E i \in 1..Len(nearest) :
          /\ Cardinality(nearest[i].free_bike_ids) = 2
          /\ Cardinality(IndicesAt(bikes, KeyOfSpot(nearest[i]))) = 2
          /\ <<"unknown">> \notin nearest[i].free_bike_ids

\* the networks the script looks at: fnb.py only those of Nextbike
KnownNetworks ==
    {networks[k] : k \in {j \in 1..Len(networks) :
                            variant = "fnb" => Contains(networks[j].id, NextbikeTag)}}

\* those whose city contains the query, letter case ignored
MatchingNetworks == {n \in KnownNetworks : Contains(Lower(n.city), Lower(city))}

PrintedCities == {printed[k].city : k \in 1..Len(printed)}

(* C10: fetch_citybikes_data returns stations only when exactly one network *)
(* matches the city query; with no match or several the run ends with a     *)
(* non-zero exit before any aggregation, and the candidate list printed is  *)
(* all known network cities for no match, the matching networks for several.*)
C10_CandidateList ==
    /\ (pc = "matched" /\ Len(matches) = 1) => Cardinality(MatchingNetworks) = 1
    /\ pc = "exit" =>
          /\ Cardinality(MatchingNetworks) # 1
          /\ exit_code = 1
          /\ nearest = <<>>
          /\ PrintedCities =
                IF MatchingNetworks = {} THEN {n.city : n \in KnownNetworks}
                ELSE {n.city : n \in MatchingNetworks}

----------------------------------------------------------------------------
\* the device-fix attempt of get_gps_coordinates ended without a fix
EndedWithoutFix == gps \in {"timeout", "error", "eof"}

\* get_gps_coordinates is over: it returned to main, or it ended the process
GpsOver == gps # "unused" /\ pc \in {"fetch", "exit"}

\* LAST_COORDS_FILE holds a record with a latitude and a longitude
HasRecord(file) ==
    file # NoCache /\ "lat" \in DOMAIN file[1] /\ "lon" \in DOMAIN file[1]

(* C11: when the device-fix attempt of fbMaemo.py ends without a fix        *)
(* (timeout, read error, end of stream), get_gps_coordinates returns the    *)
(* cached coordinate whenever the cache holds a record, whatever its        *)
(* latitude and longitude are, 0 included, and ends the process with a      *)
(* non-zero exit only when the cache holds no record.                       *)
C11_CachedCoordinateReturned ==
    (EndedWithoutFix /\ GpsOver) =>
        IF HasRecord(cache)
        THEN pc = "fetch" /\ lat = cache[1].lat /\ lon = cache[1].lon
        ELSE pc = "exit" /\ exit_code > 0

----------------------------------------------------------------------------
\* fetch_gbfs_vienna has returned the merged stations
Merged == pc = "aggregate" /\ city = NoCity /\ gps = "unused"

\* positions of station_information where a station_id occurs first
FirstOccurrences ==
    { i \in 1..Len(stations_info) :
        \A j \in 1..(i - 1) : stations_info[j].station_id # stations_info[i].station_id }

\* the place of a station_id among the distinct ids, in order of occurrence
RankOf(i) == Cardinality({ j \in FirstOccurrences : j <= i })

\* positions of the status entries of a station_id
StatusEntries(sid) ==
    { j \in 1..Len(stations_status) : stations_status[j].station_id = sid }

Last(idx) == CHOOSE j \in idx : \A k \in idx : k <= j

\* num_bikes_available of the status entry of a station_id (of the last one
\* if the feed repeats the id), 0 without an entry
StatusCount(sid) ==
    IF StatusEntries(sid) = {} THEN 0
    ELSE Get(stations_status[Last(StatusEntries(sid))], "num_bikes_available", 0)

(* C12: fetch_gbfs_vienna of fnb.py and of fb.py returns exactly one station *)
(* record per station_id of the information feed; its bike count is the     *)
(* num_bikes_available of the status entry of the same station_id, or 0     *)
(* when the status feed has no entry for the id; a status entry whose id is *)
(* not in the information feed gives no record.                             *)
C12_OneRecordPerStationId ==
    Merged =>
        /\ Len(stations) = Cardinality(FirstOccurrences)
        /\ \A i \in FirstOccurrences :
             LET sid == stations_info[i].station_id
                 r   == stations[RankOf(i)]
             IN  /\ CountOf(r) = StatusCount(sid)
                 /\ (variant = "fb" => r.station_id = sid)

\* two stations in the information feed, one with a status entry and one
\* without, and a status entry for a station the information feed lacks
C12_Witness ==
    /\ Merged
    /\ Len(stations) = 2
    /\ CountOf(stations[1]) > 0
    /\ StatusEntries(stations_info[2].station_id) = {}
    /\ \E j \in 1..Len(stations_status) :
         \A i \in 1..Len(stations_info) :
            stations_info[i].station_id # stations_status[j].station_id

----------------------------------------------------------------------------
\* the compass point that follows the k-th point (k from 0) around the circle
HigherPoint(k) == compass[((k + 1) % 8) + 1]

(* C13: a bearing exactly on a sector boundary (22.5, 67.5, ..., 337.5      *)
(* degrees) gets the higher-index one of the two adjacent compass points    *)
(* (22.5 -> NE, ..., 337.5 -> N), in fnb.py and in fb.py; and every bearing  *)
(* gets one of the 8 points N, NE, E, SE, S, SW, W, NW.                     *)
C13_BoundaryToHigherPoint ==
    pc = "direction" =>
        /\ direction \in {compass[i] : i \in 1..8}
        /\ \A k \in 0..7 :
             Normalized(bearing) = HalfSector + k * Sector
                => direction = HigherPoint(k)

----------------------------------------------------------------------------
\* positions of the accesses of one kind in cache_ops
OpsOf(kind) == { i \in 1..Len(cache_ops) : cache_ops[i].op = kind }

C15_WaitEnds == (pc = "gps") ~> (pc \in {"fetch", "fallback", "exit"})

====
